---------------------------- MODULE Spec2Model ----------------------------
(***************************************************************************)
(* Model of hydroqc_control4.                                              *)
(*                                                                         *)
(* The peak-interval core (src/temp_peak_utf8.py): the Peak class, its     *)
(* derived Anchor and PreHeat windows, the set_critical mutation and the   *)
(* settlement accessors.  Spec lets one owner call them one at a time;     *)
(* SpecConc runs set_critical statement by statement against a reader.     *)
(*                                                                         *)
(* The REST wrapper (src/app.py): the global client and cache, the         *)
(* background refresh task and the endpoints that serve the cache.         *)
(* SpecApp is that service; SpecAppFair adds the event loop's fairness.    *)
(*                                                                         *)
(* Time is counted in whole minutes.  A datetime is an integer number of   *)
(* minutes since an epoch midnight, a wall-clock time is a number of       *)
(* minutes since midnight, and datetime.timedelta(hours=h) is 60*h.        *)
(* An optional value (Python's None or a value) is a sequence of length    *)
(* at most one: <<>> is None and <<v>> is the value v.                     *)
(***************************************************************************)
EXTENDS Integers, Sequences, FiniteSets, TLC

VARIABLES
    cfg,         \* the constants imported from hydroqc.peak.cpc.consts
    peak,        \* <<>> while no Peak exists, <<p>> for the live instance p
    last_stats,  \* history: <<>> until set_critical is called, then <<payload>> of the latest call
    res,         \* the outcome of the most recent operation
    writer,      \* <<>>, or <<w>> for the set_critical call w that is under way (SpecConc)
    configured,  \* app.py: HYDRO_USERNAME and HYDRO_PASSWORD are both set
    client,      \* app.py: _webuser_client, <<>> for None
    cache,       \* app.py: _data_cache
    pc,          \* app.py: where background_refresh_task stands
    outcome,     \* app.py: how the latest refresh_cache call ended
    gw,          \* app.py: what the latest get_webuser call did
    resp         \* app.py: the response of the endpoint call just served, <<>> otherwise

\* the state of the Peak and of its owner
pvars == <<cfg, peak, last_stats, res, writer>>

\* the state of the REST wrapper
avars == <<configured, client, cache, pc, outcome, gw, resp>>

vars == <<cfg, peak, last_stats, res, writer, configured, client, cache, pc, outcome, gw, resp>>

---------------------------------------------------------------------------
(* Bounds of the model *)

MaxDay == 2      \* peaks start on calendar days 1..MaxDay
MaxHours == 2    \* anchor offsets and durations range over 1..MaxHours hours
MaxVal == 2      \* settlement payloads carry value versions 1..MaxVal
MaxContracts == 2  \* the remote account holds 0..MaxContracts contracts
MaxTime == 2     \* datetime.now() ranges over 1..MaxTime

---------------------------------------------------------------------------
(* Time *)

MinutesPerHour == 60 * 1
MinutesPerDay == 24 * MinutesPerHour

\* datetime.time(): the wall-clock time of a datetime, its date dropped
time(dt) == dt % MinutesPerDay

\* datetime.timedelta(hours=h), in minutes
timedelta_hours(h) == h * MinutesPerHour

\* datetime.timedelta(minutes=m), in minutes
timedelta_minutes(m) == m

None == <<>>
Some(v) == <<v>>

---------------------------------------------------------------------------
(* Imported constants.  Their values live in the hydroqc package, not in   *)
(* the sources at hand; the model lets them range over small sets.         *)

DEFAULT_PRE_HEAT_DURATION == 180

\* the morning band [DEFAULT_MORNING_PEAK_START, DEFAULT_MORNING_PEAK_END]: 06:00 to 09:00
DEFAULT_MORNING_PEAK_START == 6 * MinutesPerHour
DEFAULT_MORNING_PEAK_END == 9 * MinutesPerHour

Hours == 1..MaxHours

Configs ==
    { [ morning_peak_start     |-> DEFAULT_MORNING_PEAK_START,
        morning_peak_end       |-> DEFAULT_MORNING_PEAK_END,
        morning_anchor_offset  |-> mo,
        morning_anchor_duration |-> md,
        evening_anchor_offset  |-> eo,
        evening_anchor_duration |-> ed ] :
      mo \in Hours, md \in Hours, eo \in Hours, ed \in Hours }

---------------------------------------------------------------------------
(* Inputs *)

Days == 1..MaxDay

\* wall-clock times tried: around both ends of the morning band, and 17:00
ClockTimes == { DEFAULT_MORNING_PEAK_START - 1, DEFAULT_MORNING_PEAK_START,
                DEFAULT_MORNING_PEAK_END, DEFAULT_MORNING_PEAK_END + 1,
                17 * MinutesPerHour }

StartDates == { d * MinutesPerDay + t : d \in Days, t \in ClockTimes }

\* end_date - start_date of the constructor calls tried
PeakLengths == { -60, 0, 4 * MinutesPerHour }

\* preheat_duration arguments tried (minutes)
PreheatDurations == { -30, 0, DEFAULT_PRE_HEAT_DURATION }

\* the external field names of the settlement payload, in accessor order
FieldNames == << "montantEffacee", "consoReference", "consoReelle",
                 "consoEffacee", "codeConso", "indFacture" >>

Fields == { FieldNames[i] : i \in 1..Len(FieldNames) }

FieldIndex(f) == CHOOSE i \in 1..Len(FieldNames) : FieldNames[i] = f

\* the value a payload of version v carries for field f: distinct per field and version
FieldValue(f, v) == FieldIndex(f) * (MaxVal + 1) + v

Scenario3Keys == { "montantEffacee", "consoReference", "consoReelle" }

\* key sets of the payloads tried: none, the triple of scenario 3, the other three, all
PayloadKeys == { {}, Scenario3Keys, Fields \ Scenario3Keys, Fields }

Payloads == { [ f \in K |-> FieldValue(f, v) ] : K \in PayloadKeys, v \in 1..MaxVal }

EmptyStats == [ f \in {} |-> 0 ]

---------------------------------------------------------------------------
(* hydroqc.timerange.TimeRange / hydroqc.peak.basepeak.BasePeak            *)

Ok(obj) == [ ok |-> TRUE, err |-> "", obj |-> obj ]
Raise(e) == [ ok |-> FALSE, err |-> e, obj |-> <<>> ]

\* mutant: a constructor that stores whatever it is given
TimeRange_init_unchecked(start, end, is_critical) ==
    Ok([ start_date |-> start, end_date |-> end, is_critical |-> is_critical ])

\* TimeRange.__init__(start, end, is_critical): rejects start >= end
TimeRange_init(start, end, is_critical) ==
    IF start >= end
    THEN Raise("InvalidInterval")
    ELSE Ok([ start_date |-> start, end_date |-> end, is_critical |-> is_critical ])

\* BasePeak.__init__(start, end): a TimeRange that is not critical
BasePeak_init(start, end) == TimeRange_init(start, end, FALSE)

\* the start_date property
start_date(p) == p.start_date

---------------------------------------------------------------------------
(* class Anchor, class PreHeat *)

Anchor_init(start, end, is_critical) == TimeRange_init(start, end, is_critical)

PreHeat_init(start, end, is_critical) == TimeRange_init(start, end, is_critical)

---------------------------------------------------------------------------
(* class Peak *)

\* mutant: _raw_stats starts as a mapping that already holds every field
Peak_init_stale_stats(start, end, preheat_duration) ==
    LET base == BasePeak_init(start, end) IN
    IF ~base.ok
    THEN base
    ELSE Ok([ start_date       |-> base.obj.start_date,
              end_date         |-> base.obj.end_date,
              is_critical      |-> base.obj.is_critical,
              preheat_duration |-> preheat_duration,
              raw_stats        |-> [ f \in Fields |-> 0 ] ])

\* Peak.__init__: stores preheat_duration, runs the base constructor, empties _raw_stats
Peak_init(start, end, preheat_duration) ==
    LET base == BasePeak_init(start, end) IN
    IF ~base.ok
    THEN base
    ELSE Ok([ start_date       |-> base.obj.start_date,
              end_date         |-> base.obj.end_date,
              is_critical      |-> base.obj.is_critical,
              preheat_duration |-> preheat_duration,
              raw_stats        |-> EmptyStats ])

\* Peak.is_critical
is_critical(p) == p.is_critical

\* mutant: the stats are stored but the flag is left alone
set_critical_no_flag(p, stats) == [ p EXCEPT !.raw_stats = stats ]

\* mutant: the new stats are merged into the stored ones (dict.update)
set_critical_merge(p, stats) ==
    [ p EXCEPT !.is_critical = TRUE,
               !.raw_stats = [ f \in (DOMAIN p.raw_stats) \cup (DOMAIN stats) |->
                                 IF f \in DOMAIN stats THEN stats[f] ELSE p.raw_stats[f] ] ]

\* mutant: the flag is flipped instead of set
set_critical_toggle(p, stats) ==
    [ p EXCEPT !.is_critical = ~p.is_critical, !.raw_stats = stats ]

\* Peak.set_critical, first statement: self._is_critical = True
set_critical_flag(p) == [ p EXCEPT !.is_critical = TRUE ]

\* mutant: the stored mapping is updated in place, keeping the keys it had
set_critical_stats_in_place(p, stats) ==
    [ p EXCEPT !.raw_stats = [ f \in (DOMAIN p.raw_stats) \cup (DOMAIN stats) |->
                                 IF f \in DOMAIN stats THEN stats[f] ELSE p.raw_stats[f] ] ]

\* Peak.set_critical, second statement: self._raw_stats = stats
set_critical_stats(p, stats) == [ p EXCEPT !.raw_stats = stats ]

\* Peak.set_critical as a function of the object
set_critical(p, stats) == [ p EXCEPT !.is_critical = TRUE, !.raw_stats = stats ]

\* mutant: the band taken without its end points
is_morning_peak_exclusive(c, p) ==
    LET peak_time == time(start_date(p)) IN
    c.morning_peak_start < peak_time /\ peak_time < c.morning_peak_end

\* Peak.is_morning_peak
is_morning_peak(c, p) ==
    LET peak_time == time(start_date(p)) IN
    c.morning_peak_start <= peak_time /\ peak_time <= c.morning_peak_end

\* mutant: the evening constants used for every peak
anchor_always_evening(c, p) ==
    LET anchor_start_date == start_date(p) - timedelta_hours(c.evening_anchor_offset)
        anchor_end_date == anchor_start_date + timedelta_hours(c.evening_anchor_duration)
    IN  Anchor_init(anchor_start_date, anchor_end_date, is_critical(p))

\* mutant: the anchor made to end at the peak's start, whatever the duration
anchor_ends_at_peak(c, p) ==
    LET anchor_start_offset == IF is_morning_peak(c, p)
                               THEN c.morning_anchor_offset
                               ELSE c.evening_anchor_offset
        anchor_start_date == start_date(p) - timedelta_hours(anchor_start_offset)
    IN  Anchor_init(anchor_start_date, start_date(p), is_critical(p))

\* mutant: the anchor built without the peak's flag (the parameter's default)
anchor_default_flag(c, p) ==
    LET anchor_start_offset == IF is_morning_peak(c, p)
                               THEN c.morning_anchor_offset
                               ELSE c.evening_anchor_offset
        anchor_duration == IF is_morning_peak(c, p)
                           THEN c.morning_anchor_duration
                           ELSE c.evening_anchor_duration
        anchor_start_date == start_date(p) - timedelta_hours(anchor_start_offset)
        anchor_end_date == anchor_start_date + timedelta_hours(anchor_duration)
    IN  Anchor_init(anchor_start_date, anchor_end_date, FALSE)

\* Peak.anchor
anchor(c, p) ==
    LET anchor_start_offset == IF is_morning_peak(c, p)
                               THEN c.morning_anchor_offset
                               ELSE c.evening_anchor_offset
        anchor_duration == IF is_morning_peak(c, p)
                           THEN c.morning_anchor_duration
                           ELSE c.evening_anchor_duration
        anchor_start_date == start_date(p) - timedelta_hours(anchor_start_offset)
        anchor_end_date == anchor_start_date + timedelta_hours(anchor_duration)
    IN  Anchor_init(anchor_start_date, anchor_end_date, is_critical(p))

\* mutant: the window made to end at the peak's end
preheat_to_peak_end(p) ==
    LET preheat_start_date == start_date(p) - timedelta_minutes(p.preheat_duration)
    IN  PreHeat_init(preheat_start_date, p.end_date, is_critical(p))

\* Peak.preheat
preheat(p) ==
    LET preheat_start_date == start_date(p) - timedelta_minutes(p.preheat_duration)
    IN  PreHeat_init(preheat_start_date, start_date(p), is_critical(p))

\* dict.get(key): the value, or None
dict_get(d, key) == IF key \in DOMAIN d THEN Some(d[key]) ELSE None

\* mutant: saved_consumption reading the field of actual_consumption
saved_consumption_wrong_field(p) == dict_get(p.raw_stats, "consoReelle")

\* Peak.credit .. Peak.is_billed
credit(p) == dict_get(p.raw_stats, "montantEffacee")
ref_consumption(p) == dict_get(p.raw_stats, "consoReference")
actual_consumption(p) == dict_get(p.raw_stats, "consoReelle")
saved_consumption(p) == dict_get(p.raw_stats, "consoEffacee")
consumption_code(p) == dict_get(p.raw_stats, "codeConso")
is_billed(p) == dict_get(p.raw_stats, "indFacture")

\* the accessors, in the order of FieldNames
Accessors == << "credit", "ref_consumption", "actual_consumption",
                "saved_consumption", "consumption_code", "is_billed" >>

\* the accessor named a, applied to p
Access(a, p) ==
    CASE a = "credit" -> credit(p)
      [] a = "ref_consumption" -> ref_consumption(p)
      [] a = "actual_consumption" -> actual_consumption(p)
      [] a = "saved_consumption" -> saved_consumption(p)
      [] a = "consumption_code" -> consumption_code(p)
      [] a = "is_billed" -> is_billed(p)

---------------------------------------------------------------------------
(* app.py: what the remote account looks like to one refresh.  A peak      *)
(* handler is seen through the attributes refresh_cache reads; an          *)
(* attribute that is missing, or None, is None here.                       *)

\* a current or next critical peak as the handler exposes it
RemotePeak(start, end) == [ start_date |-> start, end_date |-> end ]

PeakToday == RemotePeak(Some(17 * MinutesPerHour), Some(21 * MinutesPerHour))
PeakNext == RemotePeak(Some(MinutesPerDay + DEFAULT_MORNING_PEAK_START),
                       Some(MinutesPerDay + DEFAULT_MORNING_PEAK_END))
PeakNoDates == RemotePeak(None, None)

\* a peak handler as refresh_cache reads it with getattr: None stands for an
\* attribute the handler lacks (current_state) or that is None (the others)
Handler(crit, state, current, next) ==
    [ current_peak_is_critical |-> crit, current_state |-> state,
      current_peak |-> current, next_critical_peak |-> next ]

\* the contracts tried: without a peak handler, and with handlers in each
\* of the situations refresh_cache distinguishes
ContractKinds ==
    { [ peak_handler |-> None, current_period |-> TRUE ],
      [ peak_handler |-> Some(Handler(None, None, None, None)),
        current_period |-> FALSE ],
      [ peak_handler |-> Some(Handler(Some(TRUE), Some("critical_peak"),
                                      Some(PeakToday), Some(PeakNext))),
        current_period |-> TRUE ],
      [ peak_handler |-> Some(Handler(Some(FALSE), Some("normal"), None, Some(PeakNext))),
        current_period |-> TRUE ],
      [ peak_handler |-> Some(Handler(Some(TRUE), Some("critical_peak"), None, None)),
        current_period |-> FALSE ],
      [ peak_handler |-> Some(Handler(Some(FALSE), Some("normal"),
                                      Some(PeakToday), Some(PeakNoDates))),
        current_period |-> TRUE ] }

\* what one refresh finds: the contracts of the customer's account, in order
\* (none when the user has no customer or the customer no account)
Snapshots == UNION { [ 1..n -> ContractKinds ] : n \in 0..MaxContracts }

Times == 1..MaxTime

\* datetime.isoformat()
isoformat(dt) == ToString(dt)

\* refresh_cache, step 1: the event appended for contract number i
peak_event(i, h) ==
    LET is_peak == IF h.current_peak_is_critical = None
                   THEN FALSE
                   ELSE h.current_peak_is_critical[1]
        current_state == IF h.current_state = None THEN "unknown" ELSE h.current_state[1]
        chosen == IF is_peak /\ h.current_peak # None THEN h.current_peak
                  ELSE IF h.next_critical_peak # None THEN h.next_critical_peak
                  ELSE None
        start == IF chosen = None THEN None ELSE chosen[1].start_date
        end == IF chosen = None THEN None ELSE chosen[1].end_date
    IN  [ contract_id |-> i,
          ispeak |-> Some(is_peak),
          start  |-> IF start # None THEN Some(isoformat(start[1])) ELSE None,
          end    |-> IF end # None THEN Some(isoformat(end[1])) ELSE None,
          state  |-> Some(current_state) ]

\* the elements of a sequence that satisfy Keep, in order
RECURSIVE SelectIdx(_, _, _)
SelectIdx(snap, Keep(_), i) ==
    IF i > Len(snap) THEN <<>>
    ELSE (IF Keep(snap[i]) THEN <<i>> ELSE <<>>) \o SelectIdx(snap, Keep, i + 1)

HasHandler(c) == c.peak_handler # None
HasPeriod(c) == c.current_period
AnyContract(c) == TRUE

\* refresh_cache, step 1: peak_events_data
peak_events_data(snap) ==
    LET idx == SelectIdx(snap, HasHandler, 1)
    IN  [ k \in 1..Len(idx) |-> peak_event(idx[k], snap[idx[k]].peak_handler[1]) ]

\* refresh_cache, step 2: customers_data
customers_data(snap) ==
    IF Len(snap) = 0 THEN <<>>
    ELSE << [ customer_id |-> "customer",
              contracts |-> [ k \in 1..Len(snap) |-> k ] ] >>

\* refresh_cache, step 3: consumption_data
consumption_data(snap) ==
    LET idx == SelectIdx(snap, HasPeriod, 1)
    IN  [ k \in 1..Len(idx) |-> [ contract_id |-> idx[k] ] ]

\* refresh_cache, step 4: balances_data
balances_data(snap) ==
    LET idx == SelectIdx(snap, AnyContract, 1)
    IN  [ k \in 1..Len(idx) |-> [ contract_id |-> idx[k] ] ]

---------------------------------------------------------------------------
(* app.py: the globals as the module leaves them *)

\* Cache.__init__
Cache_init ==
    [ peak_events  |-> <<>>,
      customers    |-> <<>>,
      consumption  |-> <<>>,
      balances     |-> <<>>,
      last_updated |-> None,
      initialized  |-> FALSE ]

\* the module's globals once lifespan has created the background task
AppStart(conf) ==
    /\ configured = conf
    /\ client = None
    /\ cache = Cache_init
    /\ pc = "start"
    /\ outcome = [ status |-> "none", snap |-> <<>> ]
    /\ gw = [ op |-> "none" ]
    /\ resp = [ op |-> "none" ]

---------------------------------------------------------------------------
(* The state machine: one Peak instance, built once and then used *)

Live == peak # <<>>
P == peak[1]

Result(op, out) == [ op |-> op, ok |-> out.ok, err |-> out.err, value |-> out.obj ]

Init ==
    /\ cfg \in Configs
    /\ peak = <<>>
    /\ last_stats = <<>>
    /\ res = Result("init", Ok(<<>>))
    /\ writer = <<>>
    /\ AppStart(TRUE)

\* Peak(start, end, preheat_duration): the instance exists only if no error was raised
Construct(start, end, preheat_duration) ==
    /\ ~Live
    /\ LET out == Peak_init(start, end, preheat_duration) IN
       /\ peak' = IF out.ok THEN <<out.obj>> ELSE <<>>
       /\ res' = Result("Peak",
                        [ out EXCEPT !.obj = [ start |-> start, end |-> end,
                                               preheat_duration |-> preheat_duration ] ])
    /\ UNCHANGED <<cfg, last_stats, writer>>
    /\ UNCHANGED avars

\* peak.set_critical(stats)
SetCritical(stats) ==
    /\ Live
    /\ peak' = <<set_critical(P, stats)>>
    /\ last_stats' = <<stats>>
    /\ res' = Result("set_critical",
                     Ok([ was_critical |-> is_critical(P),
                          dropped |-> (DOMAIN P.raw_stats) \ (DOMAIN stats) ]))
    /\ UNCHANGED <<cfg, writer>>
    /\ UNCHANGED avars

\* peak.is_morning_peak()
ReadIsMorningPeak ==
    /\ Live
    /\ res' = Result("is_morning_peak", Ok(is_morning_peak(cfg, P)))
    /\ UNCHANGED <<cfg, peak, last_stats, writer>>
    /\ UNCHANGED avars

\* peak.anchor
ReadAnchor ==
    /\ Live
    /\ res' = Result("anchor", anchor(cfg, P))
    /\ UNCHANGED <<cfg, peak, last_stats, writer>>
    /\ UNCHANGED avars

\* peak.preheat
ReadPreheat ==
    /\ Live
    /\ res' = Result("preheat", preheat(P))
    /\ UNCHANGED <<cfg, peak, last_stats, writer>>
    /\ UNCHANGED avars

\* peak.credit, ..., peak.is_billed
ReadAccessor(i) ==
    /\ Live
    /\ res' = Result(Accessors[i], Ok(Access(Accessors[i], P)))
    /\ UNCHANGED <<cfg, peak, last_stats, writer>>
    /\ UNCHANGED avars

Next ==
    \/ \E s \in StartDates, l \in PeakLengths, d \in PreheatDurations :
          Construct(s, s + l, d)
    \/ \E stats \in Payloads : SetCritical(stats)
    \/ ReadIsMorningPeak
    \/ ReadAnchor
    \/ ReadPreheat
    \/ \E i \in 1..Len(Accessors) : ReadAccessor(i)

Spec == Init /\ [][Next]_vars

---------------------------------------------------------------------------
(* set_critical run statement by statement: one writer thread, and readers *)
(* that may run before, between and after its two assignments              *)

\* the constants of scenario 1, which the settlement does not read
FixedConfig ==
    [ morning_peak_start      |-> DEFAULT_MORNING_PEAK_START,
      morning_peak_end        |-> DEFAULT_MORNING_PEAK_END,
      morning_anchor_offset   |-> 1,
      morning_anchor_duration |-> 1,
      evening_anchor_offset   |-> 2,
      evening_anchor_duration |-> 1 ]

InitConc == Init /\ cfg = FixedConfig

\* the writer enters set_critical(stats) and runs self._is_critical = True
WriteFlag(stats) ==
    /\ Live
    /\ writer = <<>>
    /\ peak' = <<set_critical_flag(P)>>
    /\ writer' = << [ stats |-> stats, before |-> P.raw_stats ] >>
    /\ res' = Result("set_critical:flag", Ok(<<>>))
    /\ UNCHANGED <<cfg, last_stats>>
    /\ UNCHANGED avars

\* the writer runs self._raw_stats = stats and returns
WriteStats ==
    /\ Live
    /\ writer # <<>>
    /\ peak' = <<set_critical_stats(P, writer[1].stats)>>
    /\ last_stats' = <<writer[1].stats>>
    /\ writer' = <<>>
    /\ res' = Result("set_critical:stats", Ok(<<>>))
    /\ UNCHANGED cfg
    /\ UNCHANGED avars

NextConc ==
    \/ \E s \in StartDates, l \in PeakLengths, d \in PreheatDurations :
          Construct(s, s + l, d)
    \/ \E stats \in Payloads : WriteFlag(stats)
    \/ WriteStats
    \/ ReadAnchor
    \/ ReadPreheat
    \/ \E i \in 1..Len(Accessors) : ReadAccessor(i)

SpecConc == InitConc /\ [][NextConc]_vars

---------------------------------------------------------------------------
(* app.py: the REST wrapper.  The event loop runs one coroutine at a time   *)
(* and switches only at an await, so each action below is the code between *)
(* two awaits of background_refresh_task, or one endpoint call.            *)

\* mutant: the update block without the timestamp
Cache_update_no_timestamp(c, snap, now) ==
    [ c EXCEPT !.peak_events = peak_events_data(snap),
               !.customers = customers_data(snap),
               !.consumption = consumption_data(snap),
               !.balances = balances_data(snap),
               !.initialized = TRUE ]

\* refresh_cache, "Update Cache": the six assignments, with no await between them
Cache_update(c, snap, now) ==
    [ c EXCEPT !.peak_events = peak_events_data(snap),
               !.customers = customers_data(snap),
               !.consumption = consumption_data(snap),
               !.balances = balances_data(snap),
               !.last_updated = Some(now),
               !.initialized = TRUE ]

\* mutant: every exception is passed on to the caller
Caught_nothing(kind) == FALSE

\* refresh_cache, "except Exception": CancelledError is no Exception and escapes
Caught(kind) == kind = "Exception"

\* where background_refresh_task stands after refresh_cache met an exception
after_exception(kind) ==
    IF Caught(kind) THEN "sleep"
    ELSE IF kind = "CancelledError" THEN "cancelled"
    ELSE "crashed"

\* mutant: the events gathered so far are published before the failure
cache_after_failure_partial(c) == [ c EXCEPT !.peak_events = <<>> ]

\* refresh_cache, the except block: the cache is not touched
cache_after_failure(c) == c

\* mutant: the client that failed to log in is kept
client_after_failed_login_kept(c) == c

\* get_webuser, the except block: _webuser_client = None
client_after_failed_login(c) == None

\* mutant: the start and end of the event passed on as they are
get_control4_peak_status_raw(c) ==
    IF ~c.initialized
    THEN [ ispeak |-> Some(FALSE), start |-> Some(""), end |-> Some(""),
           state |-> Some("unknown") ]
    ELSE IF Len(c.peak_events) > 0
    THEN LET first_event == c.peak_events[1] IN
         [ ispeak |-> first_event.ispeak, start |-> first_event.start,
           end |-> first_event.end, state |-> first_event.state ]
    ELSE [ ispeak |-> Some(FALSE), start |-> Some(""), end |-> Some(""),
           state |-> Some("normal") ]

\* mutant: the latest event reported instead of the first
get_control4_peak_status_last(c) ==
    IF ~c.initialized
    THEN [ ispeak |-> Some(FALSE), start |-> Some(""), end |-> Some(""),
           state |-> Some("unknown") ]
    ELSE IF Len(c.peak_events) > 0
    THEN LET first_event == c.peak_events[Len(c.peak_events)] IN
         [ ispeak |-> first_event.ispeak,
           start |-> IF first_event.start # None THEN first_event.start ELSE Some(""),
           end |-> IF first_event.end # None THEN first_event.end ELSE Some(""),
           state |-> first_event.state ]
    ELSE [ ispeak |-> Some(FALSE), start |-> Some(""), end |-> Some(""),
           state |-> Some("normal") ]

\* GET /api/control4/peak-status
get_control4_peak_status(c) ==
    IF ~c.initialized
    THEN [ ispeak |-> Some(FALSE), start |-> Some(""), end |-> Some(""),
           state |-> Some("unknown") ]
    ELSE IF Len(c.peak_events) > 0
    THEN LET first_event == c.peak_events[1] IN
         [ ispeak |-> first_event.ispeak,
           start |-> IF first_event.start # None THEN first_event.start ELSE Some(""),
           end |-> IF first_event.end # None THEN first_event.end ELSE Some(""),
           state |-> first_event.state ]
    ELSE [ ispeak |-> Some(FALSE), start |-> Some(""), end |-> Some(""),
           state |-> Some("normal") ]

\* GET /
root(conf, c) ==
    [ configured |-> conf,
      cache_initialized |-> c.initialized,
      last_updated |-> IF c.last_updated # None
                       THEN Some(isoformat(c.last_updated[1]))
                       ELSE None ]

\* the cached lists and the endpoints that return them as they are
ListEndpoints == { "peak_events", "customers", "consumption", "balances" }

\* GET /api/peak-events, /api/customers, /api/consumption/current, /api/balance
get_list(name, c) == c[name]

\* refresh_cache is running (between its first statement and its return)
Refreshing == pc \in { "login", "get_info", "fetch" }

\* refresh_cache ends on an exception of the given kind
RefreshFails(kind) ==
    /\ cache' = cache_after_failure(cache)
    /\ outcome' = [ status |-> IF Caught(kind) THEN "failed" ELSE "escaped",
                    snap |-> <<>> ]
    /\ pc' = after_exception(kind)
    /\ resp' = [ op |-> "none" ]

\* background_refresh_task calls refresh_cache, which runs get_webuser up to
\* its first await: no credentials, a new client to log in, or the stored client
RefreshStart ==
    /\ pc = "start"
    /\ IF ~configured
       THEN /\ gw' = [ op |-> "get_webuser", had_client |-> client # None,
                       did_login |-> FALSE, ok |-> FALSE ]
            /\ RefreshFails("Exception")
            /\ UNCHANGED client
       ELSE IF client = None
       THEN /\ client' = Some([ logged_in |-> FALSE ])
            /\ pc' = "login"
            /\ resp' = [ op |-> "none" ]
            /\ UNCHANGED <<cache, outcome, gw>>
       ELSE /\ gw' = [ op |-> "get_webuser", had_client |-> TRUE,
                       did_login |-> FALSE, ok |-> TRUE ]
            /\ pc' = "get_info"
            /\ resp' = [ op |-> "none" ]
            /\ UNCHANGED <<client, cache, outcome>>
    /\ UNCHANGED <<configured, pvars>>

\* await _webuser_client.login() returns: get_webuser returns the client
LoginOk ==
    /\ pc = "login"
    /\ client' = Some([ logged_in |-> TRUE ])
    /\ gw' = [ op |-> "get_webuser", had_client |-> FALSE,
               did_login |-> TRUE, ok |-> TRUE ]
    /\ pc' = "get_info"
    /\ resp' = [ op |-> "none" ]
    /\ UNCHANGED <<configured, cache, outcome, pvars>>

\* await _webuser_client.login() raises: get_webuser drops the client and
\* raises HTTPException, which ends refresh_cache
LoginFail ==
    /\ pc = "login"
    /\ client' = client_after_failed_login(client)
    /\ gw' = [ op |-> "get_webuser", had_client |-> FALSE,
               did_login |-> TRUE, ok |-> FALSE ]
    /\ RefreshFails("Exception")
    /\ UNCHANGED <<configured, pvars>>

\* await webuser.get_info() returns
GetInfoOk ==
    /\ pc = "get_info"
    /\ pc' = "fetch"
    /\ resp' = [ op |-> "none" ]
    /\ UNCHANGED <<configured, client, cache, outcome, gw, pvars>>

\* await webuser.get_info() raises
GetInfoFail ==
    /\ pc = "get_info"
    /\ RefreshFails("Exception")
    /\ UNCHANGED <<configured, client, gw, pvars>>

\* the customers and handlers are fetched, the four lists are built from
\* what was found and the cache is updated
FetchOk(snap, now) ==
    /\ pc = "fetch"
    /\ cache.last_updated # None => now >= cache.last_updated[1]
    /\ cache' = Cache_update(cache, snap, now)
    /\ outcome' = [ status |-> "ok", snap |-> snap ]
    /\ pc' = "sleep"
    /\ resp' = [ op |-> "none" ]
    /\ UNCHANGED <<configured, client, gw, pvars>>

\* customer.get_info() or the processing of what was fetched raises
FetchFail ==
    /\ pc = "fetch"
    /\ RefreshFails("Exception")
    /\ UNCHANGED <<configured, client, gw, pvars>>

\* await asyncio.sleep(REFRESH_INTERVAL_SECONDS) returns: the loop goes round
Wake ==
    /\ pc = "sleep"
    /\ pc' = "start"
    /\ resp' = [ op |-> "none" ]
    /\ UNCHANGED <<configured, client, cache, outcome, gw, pvars>>

\* lifespan shutdown: _background_task.cancel() raises CancelledError at the
\* await the task is suspended in
Cancel ==
    /\ pc \in { "login", "get_info", "fetch", "sleep" }
    /\ IF Refreshing
       THEN RefreshFails("CancelledError")
       ELSE /\ pc' = "cancelled"
            /\ resp' = [ op |-> "none" ]
            /\ UNCHANGED <<cache, outcome>>
    /\ UNCHANGED <<configured, client, gw, pvars>>

\* an endpoint call; the service runs them until the task is cancelled at shutdown
ServePeakStatus ==
    /\ pc \notin { "cancelled" }
    /\ resp' = [ op |-> "peak-status", body |-> get_control4_peak_status(cache) ]
    /\ UNCHANGED <<configured, client, cache, pc, outcome, gw, pvars>>

ServeRoot ==
    /\ pc \notin { "cancelled" }
    /\ resp' = [ op |-> "root", body |-> root(configured, cache) ]
    /\ UNCHANGED <<configured, client, cache, pc, outcome, gw, pvars>>

ServeList(name) ==
    /\ pc \notin { "cancelled" }
    /\ resp' = [ op |-> name, body |-> get_list(name, cache) ]
    /\ UNCHANGED <<configured, client, cache, pc, outcome, gw, pvars>>

\* the steps of background_refresh_task
TaskStep ==
    \/ RefreshStart
    \/ LoginOk
    \/ LoginFail
    \/ GetInfoOk
    \/ GetInfoFail
    \/ \E snap \in Snapshots, now \in Times : FetchOk(snap, now)
    \/ FetchFail
    \/ Wake

NextApp ==
    \/ TaskStep
    \/ Cancel
    \/ ServePeakStatus
    \/ ServeRoot
    \/ \E name \in ListEndpoints : ServeList(name)

InitApp ==
    /\ cfg = FixedConfig
    /\ peak = <<>>
    /\ last_stats = <<>>
    /\ res = Result("init", Ok(<<>>))
    /\ writer = <<>>
    /\ \E conf \in BOOLEAN : AppStart(conf)

SpecApp == InitApp /\ [][NextApp]_vars

\* the event loop resumes the task whenever the await it is suspended in
\* completes, and every such await completes (or raises)
SpecAppFair == SpecApp /\ WF_vars(TaskStep)

---------------------------------------------------------------------------
(* Properties *)

IsAccessor(op) == \E i \in 1..Len(Accessors) : Accessors[i] = op

\* the field of a mapping, read straight from the mapping
FieldOf(d, f) == IF f \in DOMAIN d THEN <<d[f]>> ELSE <<>>

\* the wall-clock minute of a datetime, by division
ClockOf(dt) == dt - (dt \div MinutesPerDay) * MinutesPerDay

\* C1: a constructor call with start >= end fails with InvalidInterval and
\* leaves no instance; the live Peak and every derived window have start < end.
C1_StartBeforeEnd ==
    /\ Live => P.start_date < P.end_date
    /\ (res.op = "Peak" /\ res.value.start >= res.value.end) =>
          (~res.ok /\ res.err = "InvalidInterval" /\ ~Live)
    /\ (res.op \in {"anchor", "preheat"} /\ res.ok) =>
          res.value.start_date < res.value.end_date

\* C1 witness: a constructor call with start >= end has just failed
C1_Witness ==
    /\ res.op = "Peak"
    /\ res.value.start >= res.value.end
    /\ res.err = "InvalidInterval"
    /\ ~Live

\* C2: a constructor call with preheat_duration <= 0 (and a valid interval)
\* fails with InvalidConfiguration, and no live Peak has a non-positive
\* preheat_duration.
C2_PreheatPositive ==
    /\ Live => P.preheat_duration > 0
    /\ (res.op = "Peak" /\ res.value.preheat_duration <= 0
                        /\ res.value.start < res.value.end) =>
          (~res.ok /\ res.err = "InvalidConfiguration")

\* C3: while set_critical has not been called on the Peak, every settlement
\* accessor gives None, both as computed on the object and as returned by a read.
C3_SettlementGating ==
    /\ (Live /\ last_stats = <<>>) =>
          \A i \in 1..Len(Accessors) : Access(Accessors[i], P) = None
    /\ (IsAccessor(res.op) /\ last_stats = <<>>) => res.value = None

\* C3 witness: an accessor has been read on a Peak never marked critical
C3_Witness ==
    /\ Live
    /\ last_stats = <<>>
    /\ res.op = "credit"
    /\ res.value = None

\* C4: the stored settlement mapping is non-empty only if is_critical is true.
C4_StatsOnlyWhenCritical ==
    Live => (DOMAIN P.raw_stats # {} => P.is_critical)

\* C4 witness: a Peak holding a non-empty mapping, read after set_critical
C4_Witness ==
    /\ Live
    /\ DOMAIN P.raw_stats = Fields
    /\ P.is_critical
    /\ res.op = "is_billed"

\* C5: after set_critical the Peak is critical and holds exactly the payload
\* of the latest call, the accessors read that payload alone, and no call raises.
C5_LatestPayloadOnly ==
    /\ last_stats # <<>> =>
          /\ Live
          /\ P.is_critical
          /\ P.raw_stats = last_stats[1]
          /\ \A i \in 1..Len(Accessors) :
                Access(Accessors[i], P) = FieldOf(last_stats[1], FieldNames[i])
    /\ res.op = "set_critical" => res.ok

\* C5 witness: a second set_critical whose payload lacks a field the first one had
C5_Witness ==
    /\ res.op = "set_critical"
    /\ res.value.was_critical
    /\ res.value.dropped # {}
    /\ last_stats # <<>>
    /\ DOMAIN last_stats[1] # {}

\* C6: every accessor read succeeds and returns the value of its own external
\* field (montantEffacee, consoReference, consoReelle, consoEffacee, codeConso,
\* indFacture, in accessor order) when the stored mapping has it, None otherwise.
C6_AccessorReadsItsField ==
    \A i \in 1..Len(Accessors) :
        res.op = Accessors[i] =>
            /\ res.ok
            /\ res.value = FieldOf(P.raw_stats, FieldNames[i])

\* C6 witness: scenario 3, saved_consumption read on a payload that holds only
\* montantEffacee, consoReference and consoReelle
C6_Witness ==
    /\ Live
    /\ DOMAIN P.raw_stats = Scenario3Keys
    /\ res.op = "saved_consumption"
    /\ res.value = None
    /\ credit(P) = Some(P.raw_stats["montantEffacee"])
    /\ ref_consumption(P) = Some(P.raw_stats["consoReference"])
    /\ is_billed(P) = None

\* C7: is_morning_peak is true iff the wall-clock time of start_date lies in
\* [morning_peak_start, morning_peak_end], both ends included, and a Peak with
\* the same clock time on any other date, critical or not, classifies alike.
C7_MorningClassification ==
    res.op = "is_morning_peak" =>
        /\ res.value = ( /\ cfg.morning_peak_start <= ClockOf(P.start_date)
                         /\ ClockOf(P.start_date) <= cfg.morning_peak_end )
        /\ \A s \in StartDates, stats \in Payloads :
              ClockOf(s) = ClockOf(P.start_date) =>
                 /\ is_morning_peak(cfg, [ P EXCEPT !.start_date = s ]) = res.value
                 /\ is_morning_peak(cfg, set_critical([ P EXCEPT !.start_date = s ], stats))
                       = res.value

\* C7 witness: a Peak starting exactly at morning_peak_end, on the second day,
\* has been classified as a morning peak
C7_Witness ==
    /\ res.op = "is_morning_peak"
    /\ res.value = TRUE
    /\ P.start_date = 2 * MinutesPerDay + cfg.morning_peak_end

\* the offset and duration (hours) that apply to the live Peak
ApplicableOffset ==
    IF /\ cfg.morning_peak_start <= ClockOf(P.start_date)
       /\ ClockOf(P.start_date) <= cfg.morning_peak_end
    THEN cfg.morning_anchor_offset
    ELSE cfg.evening_anchor_offset

ApplicableDuration ==
    IF /\ cfg.morning_peak_start <= ClockOf(P.start_date)
       /\ ClockOf(P.start_date) <= cfg.morning_peak_end
    THEN cfg.morning_anchor_duration
    ELSE cfg.evening_anchor_duration

\* C8: the anchor starts at the peak's start minus the applicable offset and
\* ends at its own start plus the applicable duration, morning constants for a
\* morning peak and evening constants otherwise.
C8_AnchorWindow ==
    res.op = "anchor" =>
        /\ res.ok
        /\ res.value.start_date = P.start_date - 60 * ApplicableOffset
        /\ res.value.end_date = res.value.start_date + 60 * ApplicableDuration

\* C8 witness: scenario 1, an evening peak at 17:00 with offset 2 h and duration
\* 1 h gives the anchor [15:00, 16:00), while the morning constants differ
C8_Witness ==
    /\ res.op = "anchor"
    /\ ClockOf(P.start_date) = 17 * 60
    /\ cfg.evening_anchor_offset = 2
    /\ cfg.evening_anchor_duration = 1
    /\ cfg.morning_anchor_offset = 1
    /\ cfg.morning_anchor_duration = 2
    /\ ClockOf(res.value.start_date) = 15 * 60
    /\ ClockOf(res.value.end_date) = 16 * 60
    /\ res.value.end_date - res.value.start_date = 60

\* C9: when the applicable duration is less than the applicable offset the
\* anchor ends strictly before the peak starts; when they are equal it ends
\* exactly at the peak's start.
C9_AnchorGap ==
    (res.op = "anchor" /\ res.ok) =>
        /\ ApplicableDuration < ApplicableOffset => res.value.end_date < P.start_date
        /\ ApplicableDuration = ApplicableOffset => res.value.end_date = P.start_date

\* C9 witness: a morning peak whose anchor leaves a gap of one hour
C9_Witness ==
    /\ res.op = "anchor"
    /\ res.ok
    /\ ClockOf(P.start_date) = cfg.morning_peak_start
    /\ ApplicableDuration < ApplicableOffset
    /\ P.start_date - res.value.end_date = 60

\* C10: every derived pre-heat window ends exactly at the peak's start and
\* starts preheat_duration minutes before it, for morning and evening peaks.
C10_PreheatContiguity ==
    (res.op = "preheat" /\ res.ok) =>
        /\ res.value.end_date = P.start_date
        /\ res.value.start_date = P.start_date - P.preheat_duration

\* C10 witness: scenario 2, start 17:00 and 180 minutes give [14:00, 17:00)
C10_Witness ==
    /\ res.op = "preheat"
    /\ res.ok
    /\ P.preheat_duration = 180
    /\ ClockOf(P.start_date) = 17 * 60
    /\ ClockOf(res.value.start_date) = 14 * 60
    /\ ClockOf(res.value.end_date) = 17 * 60

\* C11: a derived window carries the peak's flag as it is when the window is
\* derived: false for an anchor or pre-heat taken before set_critical, true for
\* one taken after it.
C11_WindowFlagIsCurrent ==
    (res.op \in {"anchor", "preheat"} /\ res.ok) =>
        /\ res.value.is_critical = (last_stats # <<>>)
        /\ res.value.is_critical = P.is_critical

\* C11 witness: an anchor derived after set_critical carries the flag
C11_Witness ==
    /\ res.op = "anchor"
    /\ res.ok
    /\ last_stats # <<>>
    /\ res.value.is_critical = TRUE

\* the mapping a reader finds in the Peak
Observed == P.raw_stats

\* C13: while a set_critical call is under way a reader finds the whole
\* previous mapping or the whole new one; between calls it finds the mapping
\* of the latest completed call (the empty one before the first).
C13_WholeMappingObserved ==
    Live =>
        IF writer # <<>>
        THEN Observed \in { writer[1].before, writer[1].stats }
        ELSE Observed = (IF last_stats = <<>> THEN EmptyStats ELSE last_stats[1])

\* C13 witness: an accessor was read between the two assignments of a call
\* that replaces a non-empty mapping by a different non-empty one
C13_Witness ==
    /\ Live
    /\ writer # <<>>
    /\ IsAccessor(res.op)
    /\ DOMAIN writer[1].before # {}
    /\ DOMAIN writer[1].stats # {}
    /\ DOMAIN writer[1].before # DOMAIN writer[1].stats

\* C19: a Peak is not critical when built, and once is_critical is true it is
\* true in every later state.
C19_CriticalMonotone ==
    /\ []((res.op = "Peak" /\ res.ok) => (Live /\ ~P.is_critical))
    /\ [][(Live /\ P.is_critical) => (peak' # <<>> /\ peak'[1].is_critical)]_vars

\* C19 witness: set_critical called on a Peak that was already critical
C19_Witness ==
    /\ Live
    /\ P.is_critical
    /\ res.op = "set_critical"
    /\ res.value.was_critical

\* the fields of the peak-status response
StatusFields == { "ispeak", "start", "end", "state" }

C14_TaskSurvivesFailure ==
    /\ [](pc # "crashed")
    /\ [](outcome.status = "escaped" => pc = "cancelled")
    /\ (pc = "sleep" /\ outcome.status = "failed") ~> (pc = "start" \/ pc = "cancelled")

\* C14 witness: the loop is back at its call of refresh_cache after a failure
C14_Witness ==
    /\ pc = "start"
    /\ outcome.status = "failed"

\* C15: peak-status answers the "unknown" default while the cache is not
\* initialized, the "normal" default when it is initialized without events,
\* and otherwise the first cached event, with "" for a start or end it lacks.
C15_PeakStatusCases ==
    resp.op = "peak-status" =>
        IF ~cache.initialized
        THEN resp.body = [ ispeak |-> <<FALSE>>, start |-> <<"">>, end |-> <<"">>,
                           state |-> <<"unknown">> ]
        ELSE IF cache.peak_events = <<>>
        THEN resp.body = [ ispeak |-> <<FALSE>>, start |-> <<"">>, end |-> <<"">>,
                           state |-> <<"normal">> ]
        ELSE /\ resp.body.ispeak = cache.peak_events[1].ispeak
             /\ resp.body.state = cache.peak_events[1].state
             /\ resp.body.start = (IF cache.peak_events[1].start = <<>>
                                   THEN <<"">> ELSE cache.peak_events[1].start)
             /\ resp.body.end = (IF cache.peak_events[1].end = <<>>
                                 THEN <<"">> ELSE cache.peak_events[1].end)

\* C15 witness: two different events are cached and the first one is reported
C15_Witness ==
    /\ resp.op = "peak-status"
    /\ Len(cache.peak_events) >= 2
    /\ cache.peak_events[1].ispeak # cache.peak_events[2].ispeak
    /\ cache.peak_events[1].start # <<>>
    /\ resp.body.start = cache.peak_events[1].start

\* a step in which a call of refresh_cache ends
RefreshEnds ==
    /\ pc \in { "start", "login", "get_info", "fetch" }
    /\ pc' \in { "sleep", "cancelled", "crashed" }

\* C16: a refresh that does not succeed leaves every field of the cache as it
\* was; one that succeeds replaces the four lists by those built from what
\* that refresh fetched; no other step changes the cache.
C16_RefreshAllOrNothing ==
    [][ /\ (RefreshEnds /\ outcome'.status # "ok") => cache' = cache
        /\ (RefreshEnds /\ outcome'.status = "ok") =>
              /\ cache'.peak_events = peak_events_data(outcome'.snap)
              /\ cache'.customers = customers_data(outcome'.snap)
              /\ cache'.consumption = consumption_data(outcome'.snap)
              /\ cache'.balances = balances_data(outcome'.snap)
              /\ cache'.initialized
              /\ cache'.last_updated # None
        /\ ~RefreshEnds => cache' = cache ]_vars

\* C16 witness: after a failed refresh an endpoint serves the events of the
\* last refresh that succeeded
C16_Witness ==
    /\ outcome.status = "failed"
    /\ cache.initialized
    /\ Len(cache.peak_events) > 0
    /\ resp.op = "peak_events"
    /\ resp.body = cache.peak_events

\* C17: initialized is true exactly when last_updated is set, the four lists
\* are empty while it is false, and once true it stays true.
C17_CacheInvariant ==
    /\ [](cache.initialized <=> cache.last_updated # None)
    /\ [](~cache.initialized =>
             /\ cache.peak_events = <<>>
             /\ cache.customers = <<>>
             /\ cache.consumption = <<>>
             /\ cache.balances = <<>>)
    /\ [][cache.initialized => cache'.initialized]_vars

\* C17 witness: the health endpoint reports an initialized cache with its
\* timestamp after a later refresh has failed
C17_Witness ==
    /\ resp.op = "root"
    /\ resp.body.cache_initialized
    /\ resp.body.last_updated # None
    /\ outcome.status = "failed"

\* C18 as stated: whenever get_webuser is not in the middle of a login, the
\* global holds a client only if its login succeeded.
C18_StoredOnlyAfterLogin ==
    (pc # "login" /\ client # None) => client[1].logged_in

\* C18 as amended: the client is stored before its login is awaited, so it is
\* in the global, not logged in, while the login is in flight and after a
\* cancellation that interrupts it, and in no other state; get_webuser returns
\* only a logged-in client; a login that fails leaves the global None once
\* get_webuser has raised, so the next call logs in afresh; a call that finds
\* a client stored returns that client without logging in.
C18_SessionRetry ==
    /\ []((client # None /\ ~client[1].logged_in) => pc \in { "login", "cancelled" })
    /\ []((gw.op = "get_webuser" /\ gw.ok) => (client # None /\ client[1].logged_in))
    /\ []((gw.op = "get_webuser" /\ ~gw.ok /\ pc \in { "sleep", "start" }) => client = None)
    /\ []((gw.op = "get_webuser" /\ gw.had_client) => (gw.ok /\ ~gw.did_login))
    /\ [][(pc = "start" /\ pc' # "start") =>
             /\ (pc' = "login") <=> (configured /\ client = None)
             /\ client # None => (client' = client /\ pc' = "get_info")]_vars

\* C18 witness: a later refresh has reused the client of an earlier login
C18_Witness ==
    /\ gw.op = "get_webuser"
    /\ gw.had_client
    /\ gw.ok
    /\ client # None
    /\ client[1].logged_in
    /\ cache.initialized

=============================================================================
